---- MODULE Spec2Model ----
(***************************************************************************)
(* A model of the YouTube-transcript RAG assistant: the indexing path      *)
(* (app/main.py process_single_video), the Generator with retry/backoff    *)
(* (app/rag.py RAGSystem.generate), the query path (RAGSystem.query), the  *)
(* two query rewriters (app/rag.py and app/query_rewriter.py) and the      *)
(* evaluation run (app/main.py evaluate_rag).                              *)
(*                                                                         *)
(* Python values are modelled as follows.                                  *)
(*   - a text is a sequence of tokens (strings); "" is <<>>;               *)
(*   - an optional value is a sequence of length <= 1: None is <<>>,       *)
(*     the value x is <<x>>;                                               *)
(*   - the application is single-threaded (Streamlit runs one handler to   *)
(*     completion): pc says which operation is in progress.                *)
(***************************************************************************)
EXTENDS Integers, Sequences, FiniteSets, TLC

(***************************************************************************)
(* Bounds of the model.                                                    *)
(***************************************************************************)
\* the number of process_single_video calls in one behaviour
MaxCalls == 3
\* the largest configured OLLAMA_MAX_RETRIES the model draws
MaxRetriesCap == 3
\* the largest ground-truth dataset (rows of the CSV file)
MaxGroundTruth == 2
\* the number of process_single_video calls before the queries and evaluation runs
MaxSetupCalls == 1

(***************************************************************************)
(* Values.                                                                 *)
(***************************************************************************)
None == <<>>
Some(x) == <<x>>

\* YouTube ids: two that differ only in case, and a third
VideoIds == { <<"a">>, <<"A">>, <<"b">> }

\* the embedding models the UI offers
EmbeddingModels == { "all-MiniLM-L6-v2", "all-mpnet-base-v2" }

\* the embedding model evaluate_rag looks indexes up with
EvalEmbeddingModel == "all-MiniLM-L6-v2"

\* str.lower() on one token
LowerTok(t) ==
    CASE t = "A" -> "a"
      [] t = "all-MiniLM-L6-v2" -> "all-minilm-l6-v2"
      [] OTHER -> t

\* str.lower() on a text
Lower(s) == [i \in DOMAIN s |-> LowerTok(s[i])]

\* f"video_{video_id}_{embedding_model}".lower()
IndexName(video_id, embedding_model) ==
    Lower(<<"video_">> \o video_id \o <<"_", embedding_model>>)

IndexNames == { IndexName(v, m) : v \in VideoIds, m \in EmbeddingModels }

Pairs == VideoIds \X EmbeddingModels

VARIABLES
    pc,            \* the operation in progress: "idle", "generate", "evaluate"
    \* --- persistence and search backend
    videosTable,   \* the videos table: the set of youtube ids with a row
    esIndices,     \* the index names built in the search backend
    registry,      \* the index registry: a sequence of rows
    psvCache,      \* st.cache_data of process_single_video: pair -> None (a miss)
                   \* or Some(result)
    nCalls,        \* how many process_single_video calls were made
    lastCall,      \* what the most recent process_single_video call did
    \* --- the Generator and the operations that call the model
    max_retries,   \* RAGSystem.max_retries (OLLAMA_MAX_RETRIES)
    op,            \* the most recent operation of the generator group, and its input
    attempt,       \* generate: the loop variable
    genOutcomes,   \* generate: the outcomes of the model calls made, in order
    genDelays,     \* generate: the delays slept, in order
    opLog,         \* the log entries the most recent operation wrote
    opResult,      \* the result the most recent operation returned
    \* --- the evaluation run
    groundTruthFile, \* data/ground-truth-retrieval.csv: None, or Some(rows)
    ragEvaluations,  \* the rag_evaluations table of data/sqlite.db: the rows inserted
                     \* since the most recent evaluation run began (the table is
                     \* insert-only and the application never reads it)
    sample,          \* evaluate_rag: the sampled rows
    evalPos,         \* evaluate_rag: how many sampled rows the loop has been through
    evaluations,     \* evaluate_rag: the local list of records
    evalReturn,      \* what the most recent evaluate_rag call returned
    lastItem,        \* evaluate_rag: what happened to the row the loop went through last
    nNoIndex,        \* evaluate_rag: the rows gone through whose video had no index
    nQueryFailed,    \* evaluate_rag: the rows gone through whose query failed
    nJudgeFailed,    \* evaluate_rag: the rows gone through whose judge gave no object
    \* --- ground-truth generation
    gtCall,          \* the most recent generate_ground_truth call and its outcome
    gtLast           \* the items of the most recent successful call (None: none yet)

indexVars == <<videosTable, esIndices, registry, psvCache, nCalls, lastCall>>
genVars == <<max_retries, op, attempt, genOutcomes, genDelays, opLog, opResult>>
gtVars == <<gtCall, gtLast>>
evalVars == <<groundTruthFile, ragEvaluations, sample, evalPos, evaluations,
              evalReturn, lastItem, nNoIndex, nQueryFailed, nJudgeFailed, gtVars>>
otherThanIndex == <<pc, genVars, evalVars>>
vars == <<pc, indexVars, genVars, evalVars>>

(***************************************************************************)
(* Persistence (app/database.py is not part of the sources; modelled from  *)
(* the interface the specification gives for it).                          *)
(***************************************************************************)
\* the registry rows of a (youtube id, embedding model) pair
RowsOf(video_id, embedding_model) ==
    { i \in DOMAIN registry :
        /\ registry[i].video = video_id
        /\ registry[i].model = embedding_model }

\* get_index_by_video_and_model: the index name of the pair, or None
get_elasticsearch_index_by_youtube_id(video_id, embedding_model) ==
    IF RowsOf(video_id, embedding_model) = {}
    THEN None
    ELSE LET i == CHOOSE j \in RowsOf(video_id, embedding_model) :
                    \A k \in RowsOf(video_id, embedding_model) : j <= k
         IN  Some(registry[i].index)

\* get_video_by_youtube_id on a videos table: the video's row, or None
get_video_by_youtube_id(table, video_id) ==
    IF video_id \in table THEN Some(video_id) ELSE None

(***************************************************************************)
(* process_single_video                                                    *)
(***************************************************************************)
\* the external calls of process_single_video, in the order it makes them
PsvCalls == <<"transcript", "add_video", "process_transcript", "build_index",
              "add_embedding_model", "add_elasticsearch_index">>

\* what the environment does during one call: each external call succeeds
\* or fails (a call of db_handler or data_processor that fails raises); the
\* function stops at the first failure, so one failing call at most is drawn
PsvEnvs ==
    { env \in [transcript : BOOLEAN, add_video : BOOLEAN,
               process_transcript : BOOLEAN, build_index : BOOLEAN,
               add_embedding_model : BOOLEAN, add_elasticsearch_index : BOOLEAN] :
        \A i, j \in DOMAIN PsvCalls :
            (~env[PsvCalls[i]] /\ ~env[PsvCalls[j]]) => i = j }

\* every external call of process_single_video succeeds
PsvAllSucceed == [transcript |-> TRUE, add_video |-> TRUE,
                  process_transcript |-> TRUE, build_index |-> TRUE,
                  add_embedding_model |-> TRUE, add_elasticsearch_index |-> TRUE]

\* a mutant of UseExisting: the existing index is never reused
UseExistingNever(existing_index) == FALSE

\* `if existing_index:` the registry already names an index for the pair
UseExisting(existing_index) == existing_index # None

\* a mutant of ExistingIndexOf: the lookup names a fixed embedding model
ExistingIndexOfFixedModel(video_id, embedding_model) ==
    get_elasticsearch_index_by_youtube_id(video_id, EvalEmbeddingModel)

\* `existing_index = db_handler.get_elasticsearch_index_by_youtube_id(...)`
ExistingIndexOf(video_id, embedding_model) ==
    get_elasticsearch_index_by_youtube_id(video_id, embedding_model)

\* the body of process_single_video: its result and the state it leaves
process_single_video(video_id, embedding_model, env) ==
    LET existing_index == ExistingIndexOf(video_id, embedding_model)
        index_name == IndexName(video_id, embedding_model)
        untouched == [result |-> None, videos |-> videosTable,
                      indices |-> esIndices, rows |-> registry,
                      fetched |-> FALSE, processed |-> FALSE,
                      built |-> FALSE, registered |-> FALSE,
                      indexed |-> FALSE, raised |-> FALSE]
    IN  IF UseExisting(existing_index)
        THEN [untouched EXCEPT !.result = existing_index]
        ELSE IF ~env.transcript
        THEN [untouched EXCEPT !.fetched = TRUE]
        ELSE IF ~env.add_video
        THEN [untouched EXCEPT !.fetched = TRUE]
        ELSE LET added == [untouched EXCEPT
                              !.fetched = TRUE,
                              !.videos = videosTable \cup {video_id}]
        IN   IF ~env.process_transcript
             THEN [added EXCEPT !.processed = TRUE]
             ELSE IF ~env.build_index
             THEN [added EXCEPT !.processed = TRUE, !.built = TRUE]
             ELSE LET built == [added EXCEPT
                                   !.processed = TRUE, !.built = TRUE,
                                   !.indexed = TRUE,
                                   !.indices = esIndices \cup {index_name}]
             IN   IF ~env.add_embedding_model
                  THEN [built EXCEPT !.raised = TRUE]
                  ELSE IF get_video_by_youtube_id(built.videos, video_id) = None
                  THEN built
                  ELSE IF ~env.add_elasticsearch_index
                  THEN [built EXCEPT !.raised = TRUE]
                  ELSE [built EXCEPT
                           !.result = Some(index_name),
                           !.registered = TRUE,
                           !.rows = Append(registry,
                                       [video |-> video_id,
                                        index |-> index_name,
                                        model |-> embedding_model])]

\* a call of the cached function: a cache hit returns the stored result
\* without running the body
ProcessSingleVideo(video_id, embedding_model, env) ==
    /\ pc = "idle"
    /\ nCalls < MaxCalls
    /\ LET key == <<video_id, embedding_model>>
           hit == psvCache[key] # None
           r == process_single_video(video_id, embedding_model, env)
           \* the result of the call before this one, when it was for the same pair
           prev == IF lastCall.video = video_id /\ lastCall.model = embedding_model
                   THEN lastCall.result ELSE None
       IN  /\ nCalls' = nCalls + 1
           /\ IF hit
              THEN /\ lastCall' = [video |-> video_id, model |-> embedding_model,
                                   prev |-> prev,
                                   result |-> psvCache[key][1], ran |-> FALSE,
                                   fetched |-> FALSE, processed |-> FALSE,
                                   built |-> FALSE, registered |-> FALSE,
                                   indexed |-> FALSE, raised |-> FALSE]
                   /\ UNCHANGED <<videosTable, esIndices, registry, psvCache>>
              ELSE /\ lastCall' = [video |-> video_id, model |-> embedding_model,
                                   prev |-> prev,
                                   result |-> r.result, ran |-> TRUE,
                                   fetched |-> r.fetched, processed |-> r.processed,
                                   built |-> r.built, registered |-> r.rows # registry,
                                   indexed |-> r.indexed, raised |-> r.raised]
                   /\ videosTable' = r.videos
                   /\ esIndices' = r.indices
                   /\ registry' = r.rows
                   \* a call that raised has no return value to cache
                   /\ psvCache' = IF r.raised THEN psvCache
                                  ELSE [psvCache EXCEPT ![key] = Some(r.result)]
    /\ UNCHANGED otherThanIndex

\* the in-memory cache of st.cache_data does not outlive the process (or a
\* cache clear): every entry becomes a miss
ClearCache ==
    /\ pc = "idle"
    /\ \E key \in Pairs : psvCache[key] # None
    /\ psvCache' = [key \in Pairs |-> None]
    /\ UNCHANGED <<videosTable, esIndices, registry, nCalls, lastCall>>
    /\ UNCHANGED otherThanIndex

(***************************************************************************)
(* The model-serving endpoint: one ollama.chat call either raises or       *)
(* returns a response whose message content is a text.                     *)
(***************************************************************************)
\* the exceptions a model call raises (str(e))
Errors == { "timeout", "connection refused" }

\* the contents a model call returns to a rewriter or to generate
ChatTexts == { <<>>, <<"rewritten", "query">>, <<"Error:", "cannot rewrite">> }

ChatFailed(e) == [ok |-> FALSE, text |-> <<>>, error |-> e]
ChatReturned(t) == [ok |-> TRUE, text |-> t, error |-> ""]

\* the outcomes of one model call
ChatOutcomes ==
    { ChatFailed(e) : e \in Errors } \cup { ChatReturned(t) : t \in ChatTexts }

\* the user queries
Queries == { <<"how", "do", "bees", "dance">>, <<"what", "is", "the", "waggle", "dance">> }

\* Python truthiness of an optional text: None and "" are falsy
Truthy(value) == value # None /\ value[1] # <<>>

\* str.startswith
StartsWith(text, prefix) ==
    /\ Len(text) >= Len(prefix)
    /\ SubSeq(text, 1, Len(prefix)) = prefix

NoResult == [value |-> None, prompt |-> <<>>]
NoOp == [name |-> "none", query |-> <<>>]

(***************************************************************************)
(* RAGSystem.generate, and RAGSystem.rewrite_cot / rewrite_react on top    *)
(***************************************************************************)
\* the prompt of RAGSystem.rewrite_cot
RagCotPrompt(query) ==
    <<"Rewrite the following query using chain-of-thought reasoning:", "Query:">>
        \o query \o <<"Rewritten query:">>

\* the prompt of RAGSystem.rewrite_react
RagReactPrompt(query) ==
    <<"Rewrite the following query using ReAct (Reasoning and Acting) approach:",
      "Query:">> \o query \o <<"Rewritten query:">>

\* the prompt generate is called with by the operation in progress
GenPrompt(o) ==
    CASE o.name = "rewrite_cot" -> RagCotPrompt(o.query)
      [] o.name = "rewrite_react" -> RagReactPrompt(o.query)
      [] OTHER -> o.query

\* a mutant of LastAttempt: the exhaustion test is off by one
LastAttemptOffByOne(att) == att = max_retries

\* `if attempt == self.max_retries - 1`
LastAttempt(att) == att = max_retries - 1

\* a mutant of Backoff: a constant delay
BackoffConstant(att) == 1

\* `time.sleep(2 ** attempt)`
Backoff(att) == 2 ^ att

\* a mutant of ChatContent: the response is dropped
ChatContentDropped(outcome) == None

\* `return response['message']['content']`
ChatContent(outcome) == Some(outcome.text)

\* rewrite_cot / rewrite_react after generate returned `response`
RewriteResult(response, query, prompt) ==
    IF Truthy(response)
    THEN [value |-> response, prompt |-> prompt]
    ELSE [value |-> Some(query), prompt |-> prompt]

\* what the caller of generate returns once generate returned `value`
AfterGenerate(o, value) ==
    IF o.name \in {"rewrite_cot", "rewrite_react"}
    THEN RewriteResult(value, o.query, GenPrompt(o))
    ELSE [value |-> value, prompt |-> <<>>]

\* generate, rewrite_cot or rewrite_react is called: the retry loop is entered
\* (with max_retries = 0 the loop body never runs and generate returns None)
GenerateStart(name, query) ==
    /\ pc = "idle"
    /\ op' = [name |-> name, query |-> query]
    /\ attempt' = 0
    /\ genOutcomes' = <<>>
    /\ genDelays' = <<>>
    /\ opLog' = <<>>
    /\ IF 0 < max_retries
       THEN pc' = "generate" /\ opResult' = NoResult
       ELSE pc' = "idle" /\ opResult' = AfterGenerate(op', None)
    /\ UNCHANGED <<max_retries, indexVars, evalVars>>

\* one iteration of the retry loop: the model call, and on failure the log
\* entry and either the give-up or the backoff sleep
GenerateAttempt(outcome) ==
    /\ pc = "generate"
    /\ genOutcomes' = Append(genOutcomes, outcome)
    /\ IF outcome.ok
       THEN /\ pc' = "idle"
            /\ opResult' = AfterGenerate(op, ChatContent(outcome))
            /\ UNCHANGED <<attempt, genDelays, opLog>>
       ELSE LET logged == Append(opLog, [msg |-> "Error generating response on attempt",
                                         attempt |-> attempt + 1,
                                         error |-> outcome.error])
            IN  IF LastAttempt(attempt)
                THEN /\ opLog' = Append(logged, [msg |-> "All retries exhausted",
                                                 attempt |-> attempt + 1,
                                                 error |-> ""])
                     /\ pc' = "idle"
                     /\ opResult' = AfterGenerate(op, None)
                     /\ UNCHANGED <<attempt, genDelays>>
                ELSE /\ opLog' = logged
                     /\ genDelays' = Append(genDelays, Backoff(attempt))
                     /\ attempt' = attempt + 1
                     /\ IF attempt + 1 < max_retries
                        THEN pc' = "generate" /\ opResult' = NoResult
                        ELSE pc' = "idle" /\ opResult' = AfterGenerate(op, None)
    /\ UNCHANGED <<op, max_retries, indexVars, evalVars>>

(***************************************************************************)
(* QueryRewriter (the rewriter the UI calls)                               *)
(***************************************************************************)
\* the prompt of QueryRewriter.rewrite_cot
QrCotPrompt(query) ==
    <<"Rewrite the following query using Chain-of-Thought reasoning:", "Query:">>
        \o query \o <<"Rewritten query:">>

\* the prompt of QueryRewriter.rewrite_react
QrReactPrompt(query) ==
    <<"Rewrite the following query using the ReAct framework (Reasoning and Acting):",
      "Query:">> \o query
        \o <<"Thought 1:", "Action 1:", "Observation 1:",
             "Thought 2:", "Action 2:", "Observation 2:",
             "Final rewritten query:">>

\* QueryRewriter.generate: the content, or the text "Error: <e>"
qr_generate(outcome) ==
    IF outcome.ok THEN outcome.text ELSE <<"Error:", outcome.error>>

\* QueryRewriter.rewrite_cot / rewrite_react after generate returned
qr_rewrite(rewritten_query, query, prompt) ==
    IF StartsWith(rewritten_query, <<"Error:">>)
    THEN [value |-> Some(query), prompt |-> prompt]
    ELSE [value |-> Some(rewritten_query), prompt |-> prompt]

\* QueryRewriter.rewrite_cot(query) or rewrite_react(query): one model call
QrRewrite(name, query, outcome) ==
    /\ pc = "idle"
    /\ op' = [name |-> name, query |-> query]
    /\ attempt' = 0
    /\ genOutcomes' = <<outcome>>
    /\ genDelays' = <<>>
    /\ opLog' = (IF outcome.ok
                 THEN <<>>
                 ELSE <<[msg |-> "Error generating response", attempt |-> 1,
                         error |-> outcome.error]>>)
                 \o (IF StartsWith(qr_generate(outcome), <<"Error:">>)
                     THEN <<[msg |-> "Error in rewriting", attempt |-> 1,
                             error |-> ""]>>
                     ELSE <<>>)
    /\ opResult' = qr_rewrite(qr_generate(outcome), query,
                              IF name = "qr_cot" THEN QrCotPrompt(query)
                                                 ELSE QrReactPrompt(query))
    /\ UNCHANGED <<pc, max_retries, indexVars, evalVars>>

(***************************************************************************)
(* RAGSystem.query                                                         *)
(***************************************************************************)
SearchRaised(e) == [raised |-> TRUE, error |-> e, docs |-> <<>>]
SearchReturned(docs) == [raised |-> FALSE, error |-> "", docs |-> docs]

\* data_processor.search (app/data_processor.py is not part of the sources):
\* a missing index is an error; an existing one yields zero or more passages,
\* or a backend error
SearchOutcomes(indices, index_name) ==
    IF index_name \notin indices
    THEN { SearchRaised("IndexNotFoundError") }
    ELSE { SearchRaised("search failed"),
           SearchReturned(<<>>),
           SearchReturned(<< <<"bees", "dance">> >>),
           SearchReturned(<< <<"bees", "dance">>, <<"the", "waggle", "dance">> >>) }

\* "\n".join(contents)
RECURSIVE JoinLines(_)
JoinLines(docs) ==
    IF docs = <<>> THEN <<>>
    ELSE IF Len(docs) = 1 THEN docs[1]
    ELSE docs[1] \o <<"\n">> \o JoinLines(Tail(docs))

\* RAGSystem.get_prompt
get_prompt(user_query, relevant_docs) ==
    <<"RAG_PROMPT_TEMPLATE", "Context from transcript:">> \o JoinLines(relevant_docs)
        \o <<"User Question:">> \o user_query

\* f"An error occurred: {str(e)}"
ErrorAnswer(e) == <<"An error occurred:", e>>

NoDocsAnswer == <<"I couldn't find any relevant information to answer your query.">>

\* RAGSystem.query: the (answer, prompt) pair returned and the model calls
\* made; `index_name` is optional, `search` and `chat` are what the search
\* backend and the model endpoint do if they are called
query(user_query, index_name, search, chat) ==
    IF ~Truthy(index_name)
    THEN [answer |-> ErrorAnswer("No index name provided"), prompt |-> <<>>,
          calls |-> <<>>, failed |-> TRUE]
    ELSE IF search.raised
    THEN [answer |-> ErrorAnswer(search.error), prompt |-> <<>>,
          calls |-> <<>>, failed |-> TRUE]
    ELSE IF search.docs = <<>>
    THEN [answer |-> NoDocsAnswer, prompt |-> <<>>, calls |-> <<>>, failed |-> FALSE]
    ELSE IF ~chat.ok
    THEN [answer |-> ErrorAnswer(chat.error), prompt |-> <<>>,
          calls |-> <<chat>>, failed |-> TRUE]
    ELSE [answer |-> chat.text, prompt |-> get_prompt(user_query, search.docs),
          calls |-> <<chat>>, failed |-> FALSE]

\* the UI's search: rag_system.query on an index name (or none)
Query(user_query, index_name, search, chat) ==
    /\ pc = "idle"
    /\ LET r == query(user_query, index_name, search, chat)
       IN  /\ op' = [name |-> "query", query |-> user_query]
           /\ attempt' = 0
           /\ genOutcomes' = r.calls
           /\ genDelays' = <<>>
           /\ opLog' = IF r.failed
                       THEN <<[msg |-> "An error occurred in the RAG system",
                               attempt |-> 0, error |-> r.answer[2]]>>
                       ELSE IF r.calls = <<>>
                       THEN <<[msg |-> "No relevant documents found for the query.",
                               attempt |-> 0, error |-> ""]>>
                       ELSE <<>>
           /\ opResult' = [value |-> Some(r.answer), prompt |-> r.prompt]
    /\ UNCHANGED <<pc, max_retries, indexVars, evalVars>>

(***************************************************************************)
(* evaluate_rag                                                            *)
(***************************************************************************)
\* the rows a ground-truth file may hold
GroundTruthRows ==
    [video_id : { <<"a">>, <<"b">> }, question : { <<"how", "do", "bees", "dance">> }]

\* the ground-truth files of at most MaxGroundTruth rows
GroundTruthFiles ==
    UNION { [1 .. n -> GroundTruthRows] : n \in 0 .. MaxGroundTruth }

\* the contents the judge model returns
JudgeTexts ==
    { <<"{\"Relevance\": \"RELEVANT\", \"Explanation\": \"on topic\"}">>,
      <<"{}">>,
      <<"[\"RELEVANT\"]">>,
      <<"Sure, here is my evaluation">> }

\* the outcomes of the judge's model call
JudgeOutcomes ==
    { ChatFailed("timeout") } \cup { ChatReturned(t) : t \in JudgeTexts }

\* the outcomes of the answering model call during an evaluation run
AnswerOutcomes ==
    { ChatFailed("timeout"), ChatReturned(<<"by", "the", "waggle", "dance">>) }

NoFields == [Relevance |-> "", Explanation |-> ""]

\* json.loads on a model's contents: it raises on text that is not JSON, and
\* yields an object (its keys, their values, the list under "questions") or
\* another JSON value (for an array, its items)
json_loads(text) ==
    CASE text = <<"{\"Relevance\": \"RELEVANT\", \"Explanation\": \"on topic\"}">> ->
            [raised |-> FALSE, isObject |-> TRUE,
             keys |-> {"Relevance", "Explanation"},
             val |-> [Relevance |-> "RELEVANT", Explanation |-> "on topic"],
             questions |-> <<>>, items |-> {}]
      [] text = <<"{}">> ->
            [raised |-> FALSE, isObject |-> TRUE, keys |-> {}, val |-> NoFields,
             questions |-> <<>>, items |-> {}]
      [] text = <<"[\"RELEVANT\"]">> ->
            [raised |-> FALSE, isObject |-> FALSE, keys |-> {}, val |-> NoFields,
             questions |-> <<>>, items |-> {"RELEVANT"}]
      [] text = <<"{\"questions\": [\"how do bees dance\"]}">> ->
            [raised |-> FALSE, isObject |-> TRUE, keys |-> {"questions"},
             val |-> NoFields,
             questions |-> << <<"how", "do", "bees", "dance">> >>, items |-> {}]
      [] text = <<"{\"questions\": [\"how do bees dance\", \"what is the waggle dance\"]}">> ->
            [raised |-> FALSE, isObject |-> TRUE, keys |-> {"questions"},
             val |-> NoFields,
             questions |-> << <<"how", "do", "bees", "dance">>,
                              <<"what", "is", "the", "waggle", "dance">> >>,
             items |-> {}]
      [] text = <<"{\"topics\": [\"bees\"]}">> ->
            [raised |-> FALSE, isObject |-> TRUE, keys |-> {"topics"},
             val |-> NoFields, questions |-> <<>>, items |-> {}]
      [] text = <<"[\"questions\"]">> ->
            [raised |-> FALSE, isObject |-> FALSE, keys |-> {}, val |-> NoFields,
             questions |-> <<>>, items |-> {"questions"}]
      [] OTHER ->
            [raised |-> TRUE, isObject |-> FALSE, keys |-> {}, val |-> NoFields,
             questions |-> <<>>, items |-> {}]

\* dict.get(key, default)
dict_get(parsed, key, default) ==
    IF key \in parsed.keys THEN parsed.val[key] ELSE default

\* the file data/ground-truth-retrieval.csv is put in place
ProvideGroundTruth(rows) ==
    /\ pc = "idle"
    /\ groundTruthFile = None
    /\ groundTruthFile' = Some(rows)
    /\ UNCHANGED <<pc, indexVars, genVars, ragEvaluations, sample, evalPos,
                   evaluations, evalReturn, lastItem, nNoIndex, nQueryFailed,
                   nJudgeFailed, gtVars>>

\* ground_truth.sample(n, random_state=1): n distinct rows, in some order
Samples(rows, n) ==
    { [i \in 1 .. n |-> rows[order[i]]] :
        order \in { o \in [1 .. n -> DOMAIN rows] :
                      \A i, j \in 1 .. n : i # j => o[i] # o[j] } }

NoItem == [pos |-> 0, noIndex |-> FALSE, queryFailed |-> FALSE, judge |-> "none",
           recorded |-> FALSE]

\* min(sample_size, len(ground_truth))
Min(a, b) == IF a < b THEN a ELSE b

\* evaluate_rag(sample_size) up to the loop: the file is read and sampled
EvalStart(sample_size) ==
    /\ pc = "idle"
    /\ evalPos' = 0
    /\ evaluations' = <<>>
    /\ lastItem' = NoItem
    /\ nNoIndex' = 0
    /\ nQueryFailed' = 0
    /\ nJudgeFailed' = 0
    /\ evalReturn' = None
    /\ IF groundTruthFile = None
       THEN /\ sample' = <<>>
            /\ pc' = "idle"
       ELSE /\ sample' \in Samples(groundTruthFile[1],
                                   Min(sample_size, Len(groundTruthFile[1])))
            /\ pc' = "evaluate"
    /\ ragEvaluations' = <<>>
    /\ UNCHANGED <<indexVars, genVars, groundTruthFile, gtVars>>

\* a mutant of SkipItem: an item without an index is not skipped
SkipItemNever(index_name) == FALSE

\* `if not index_name:` the item's video has no index
SkipItem(index_name) == ~Truthy(index_name)

\* a mutant of JudgeRecord: a record is appended whatever the judge returned
JudgeRecordAlways(row, answer_llm, judge) ==
    <<[video_id |-> row.video_id, question |-> row.question, answer |-> answer_llm,
       relevance |-> "UNKNOWN", explanation |-> "No explanation provided"]>>

\* the judge's try block: the records appended for one item (one or none)
JudgeRecord(row, answer_llm, judge) ==
    IF ~judge.ok
    THEN <<>>
    ELSE LET evaluation_json == json_loads(judge.text)
         IN  IF evaluation_json.raised \/ ~evaluation_json.isObject
             THEN <<>>
             ELSE <<[video_id |-> row.video_id,
                     question |-> row.question,
                     answer |-> answer_llm,
                     relevance |-> dict_get(evaluation_json, "Relevance", "UNKNOWN"),
                     explanation |-> dict_get(evaluation_json, "Explanation",
                                              "No explanation provided")]>>

\* what the judge did, for the trace
JudgeKind(judge) ==
    IF ~judge.ok THEN "failed"
    ELSE IF json_loads(judge.text).raised THEN "invalid"
    ELSE IF ~json_loads(judge.text).isObject THEN "nonobject"
    ELSE "object"

\* one iteration of the loop of evaluate_rag
EvalItem(search, chat, judge) ==
    /\ pc = "evaluate"
    /\ evalPos < Len(sample)
    /\ LET row == sample[evalPos + 1]
           index_name ==
               get_elasticsearch_index_by_youtube_id(row.video_id, EvalEmbeddingModel)
       IN  IF SkipItem(index_name)
           THEN /\ evaluations' = evaluations
                /\ lastItem' = [pos |-> evalPos + 1, noIndex |-> TRUE,
                                queryFailed |-> FALSE, judge |-> "none",
                                recorded |-> FALSE]
                /\ nNoIndex' = nNoIndex + 1
                /\ UNCHANGED <<nQueryFailed, nJudgeFailed>>
           ELSE /\ IF Truthy(index_name)
                   THEN search \in SearchOutcomes(esIndices, index_name[1])
                   ELSE TRUE
                /\ LET r == query(row.question, index_name, search, chat)
                   IN  /\ evaluations' = evaluations \o JudgeRecord(row, r.answer, judge)
                       /\ lastItem' = [pos |-> evalPos + 1,
                                       noIndex |-> index_name = None,
                                       queryFailed |-> r.failed,
                                       judge |-> JudgeKind(judge),
                                       recorded |-> evaluations' # evaluations]
                       /\ nNoIndex' = IF index_name = None THEN nNoIndex + 1
                                                           ELSE nNoIndex
                       /\ nQueryFailed' = IF index_name # None /\ r.failed
                                          THEN nQueryFailed + 1 ELSE nQueryFailed
                       /\ nJudgeFailed' = IF JudgeKind(judge) # "object"
                                          THEN nJudgeFailed + 1 ELSE nJudgeFailed
    /\ evalPos' = evalPos + 1
    /\ UNCHANGED <<pc, indexVars, genVars, groundTruthFile, ragEvaluations, sample,
                   evalReturn, gtVars>>

\* a mutant of InsertEvaluations: the records are not inserted
InsertEvaluationsOmitted(table, records) == table

\* `cursor.executemany('INSERT INTO rag_evaluations ...', evaluations)` and the
\* commit: the table with the records of the run appended
InsertEvaluations(table, records) == table \o records

\* evaluate_rag after the loop: the records are stored and returned
EvalFinish ==
    /\ pc = "evaluate"
    /\ evalPos = Len(sample)
    /\ ragEvaluations' = InsertEvaluations(ragEvaluations, evaluations)
    /\ evalReturn' = Some(evaluations)
    /\ pc' = "idle"
    /\ UNCHANGED <<indexVars, genVars, groundTruthFile, sample, evalPos, evaluations,
                   lastItem, nNoIndex, nQueryFailed, nJudgeFailed, gtVars>>

(***************************************************************************)
(* generate_questions and generate_ground_truth                            *)
(***************************************************************************)
\* the contents the question-writing model returns
QuestionTexts ==
    { <<"{\"questions\": [\"how do bees dance\"]}">>,
      <<"{\"questions\": [\"how do bees dance\", \"what is the waggle dance\"]}">>,
      <<"{\"topics\": [\"bees\"]}">>,
      <<"{}">>,
      <<"[\"questions\"]">>,
      <<"Here are ten questions">> }

\* the outcomes of the model call of generate_questions
QuestionOutcomes ==
    { ChatFailed("timeout") } \cup { ChatReturned(t) : t \in QuestionTexts }

\* the video ids generate_ground_truth is called with: none, the empty text
\* of an input box left empty, or a video's id
GtVideoIds == { None, Some(<<>>), Some(<<"a">>), Some(<<"b">>) }

\* the transcript entries get_transcript fetches, or None
FetchedTranscripts == { None, Some(<< <<"bees", "dance">>, <<"in", "the", "hive">> >>) }

\* the transcripts generate_ground_truth is given: none, or a text
ExistingTranscripts == { None, Some(<<"bees", "waggle">>) }

\* " ".join(texts)
RECURSIVE JoinWords(_)
JoinWords(texts) ==
    IF texts = <<>> THEN <<>> ELSE texts[1] \o JoinWords(Tail(texts))

\* generate_questions: the parsed response, or None when the model call or
\* json.loads raised
generate_questions(transcript, chat) ==
    IF ~chat.ok THEN None
    ELSE IF json_loads(chat.text).raised THEN None
    ELSE Some(json_loads(chat.text))

\* the truth value of a parsed JSON value
JsonTruthy(parsed) ==
    IF parsed.isObject THEN parsed.keys # {} ELSE parsed.items # {}

\* a mutant of HasQuestions: the "questions" key is not looked for
HasQuestionsUnchecked(questions) == questions # None

\* `if questions and 'questions' in questions:`
HasQuestions(questions) ==
    /\ questions # None
    /\ JsonTruthy(questions[1])
    /\ IF questions[1].isObject THEN "questions" \in questions[1].keys
                                ELSE "questions" \in questions[1].items

\* the rows of the data frame: one (video_id or "custom", question) per question
QuestionRows(video_id, qs) ==
    [i \in DOMAIN qs |->
        [video_id |-> IF Truthy(video_id) THEN video_id[1] ELSE <<"custom">>,
         question |-> qs[i]]]

\* a mutant of WriteCsv: the rows are appended to the file
WriteCsvAppend(file, df) ==
    IF file = None THEN Some(df) ELSE Some(file[1] \o df)

\* df.to_csv('data/ground-truth-retrieval.csv', index=False): the file holds
\* the rows of the data frame and nothing else
WriteCsv(file, df) == Some(df)

\* the body of generate_ground_truth: what it returns, what it shows, the
\* file it leaves, the transcript it used, whether the model was asked
generate_ground_truth(video_id, existing_transcript, transcript_data, chat, file) ==
    LET failed(message) ==
            [result |-> None, message |-> message, raised |-> FALSE,
             file |-> file, transcript |-> None, asked |-> FALSE]
    IN  IF video_id = None /\ existing_transcript = None
        THEN failed("Please provide either a video ID or an existing transcript.")
        ELSE IF Truthy(video_id) /\ transcript_data = None
        THEN failed("Failed to retrieve transcript for the provided video ID.")
        ELSE LET full_transcript ==
                     IF Truthy(video_id) THEN Some(JoinWords(transcript_data[1]))
                                         ELSE existing_transcript
                 questions == generate_questions(full_transcript, chat)
                 asked == [failed("Failed to generate questions.") EXCEPT
                              !.transcript = full_transcript, !.asked = TRUE]
             IN  IF ~HasQuestions(questions)
                 THEN asked
                 ELSE IF ~questions[1].isObject
                 THEN [asked EXCEPT !.message = "TypeError", !.raised = TRUE]
                 ELSE LET df == QuestionRows(video_id, questions[1].questions)
                      IN  [asked EXCEPT
                              !.result = Some(df),
                              !.file = WriteCsv(file, df),
                              !.message = "Ground truth data generated and saved"]

NoGtCall == [called |-> FALSE, video_id |-> None, response |-> ChatFailed("not called"),
             before |-> None, result |-> None, message |-> "", raised |-> FALSE,
             transcript |-> None, asked |-> FALSE]

\* the question texts of the response, as the caller of a successful call
\* reads them
ResponseQuestions(chat) ==
    IF chat.ok THEN json_loads(chat.text).questions ELSE <<>>

\* a call of generate_ground_truth from the UI
GenerateGroundTruth(video_id, existing_transcript, transcript_data, chat) ==
    /\ pc = "idle"
    /\ LET r == generate_ground_truth(video_id, existing_transcript,
                                      transcript_data, chat, groundTruthFile)
       IN  /\ groundTruthFile' = r.file
           /\ gtCall' = [called |-> TRUE, video_id |-> video_id,
                         response |-> IF r.asked THEN chat
                                                 ELSE ChatFailed("not called"),
                         before |-> groundTruthFile, result |-> r.result,
                         message |-> r.message, raised |-> r.raised,
                         transcript |-> r.transcript, asked |-> r.asked]
           /\ gtLast' = IF r.result # None
                        THEN Some(QuestionRows(video_id, ResponseQuestions(chat)))
                        ELSE gtLast
    /\ UNCHANGED <<pc, indexVars, genVars, ragEvaluations, sample, evalPos,
                   evaluations, evalReturn, lastItem, nNoIndex, nQueryFailed,
                   nJudgeFailed>>

\* the process is terminated while evaluate_rag is in its loop: nothing more
\* is executed, and the files and the databases stay as they are (the list
\* `evaluations` is kept here as the record of what the run had produced)
Terminate ==
    /\ pc = "evaluate"
    /\ pc' = "killed"
    /\ UNCHANGED <<indexVars, genVars, evalVars>>

(***************************************************************************)
(* Specifications                                                          *)
(***************************************************************************)
NoCall == [video |-> <<>>, model |-> "", prev |-> None, result |-> None, ran |-> FALSE,
           fetched |-> FALSE, processed |-> FALSE, built |-> FALSE,
           registered |-> FALSE, indexed |-> FALSE, raised |-> FALSE]

InitBase ==
    /\ pc = "idle"
    /\ videosTable = {}
    /\ esIndices = {}
    /\ registry = <<>>
    /\ psvCache = [key \in Pairs |-> None]
    /\ nCalls = 0
    /\ lastCall = NoCall
    /\ op = NoOp
    /\ attempt = 0
    /\ genOutcomes = <<>>
    /\ genDelays = <<>>
    /\ opLog = <<>>
    /\ opResult = NoResult
    /\ groundTruthFile = None
    /\ ragEvaluations = <<>>
    /\ sample = <<>>
    /\ evalPos = 0
    /\ evaluations = <<>>
    /\ evalReturn = None
    /\ lastItem = NoItem
    /\ nNoIndex = 0
    /\ nQueryFailed = 0
    /\ nJudgeFailed = 0
    /\ gtCall = NoGtCall
    /\ gtLast = None

\* OLLAMA_MAX_RETRIES is not set: the default
DefaultMaxRetries == 3

\* the application as configured by default
Init == InitBase /\ max_retries = DefaultMaxRetries

\* the application with OLLAMA_MAX_RETRIES set
InitConfigured == InitBase /\ max_retries \in 0 .. MaxRetriesCap

\* the indexing path
NextIndexing ==
    \/ \E v \in VideoIds, m \in EmbeddingModels, env \in PsvEnvs :
          ProcessSingleVideo(v, m, env)
    \/ ClearCache

SpecIndexing == Init /\ [][NextIndexing]_vars

\* the Generator and the operations that call the model
NextGenerator ==
    \/ \E name \in {"generate", "rewrite_cot", "rewrite_react"}, q \in Queries :
          GenerateStart(name, q)
    \/ \E outcome \in ChatOutcomes : GenerateAttempt(outcome)
    \/ \E name \in {"qr_cot", "qr_react"}, q \in Queries, outcome \in ChatOutcomes :
          QrRewrite(name, q, outcome)

SpecGenerator == InitConfigured /\ [][NextGenerator]_vars

\* the index names a caller may hold: none, or the name of a pair
HeldIndexNames == { None } \cup { Some(n) : n \in IndexNames }

\* some videos are processed, then queries are answered
NextQuery ==
    \/ \E v \in VideoIds, m \in EmbeddingModels :
          nCalls < MaxSetupCalls /\ ProcessSingleVideo(v, m, PsvAllSucceed)
    \/ \E q \in Queries, index_name \in HeldIndexNames, chat \in ChatOutcomes :
          \E search \in (IF index_name = None THEN { SearchReturned(<<>>) }
                         ELSE SearchOutcomes(esIndices, index_name[1])) :
              Query(q, index_name, search, chat)

SpecQuery == Init /\ [][NextQuery]_vars

\* some videos are processed, a ground-truth file is there, evaluations run
NextEval ==
    \/ \E v \in VideoIds, m \in EmbeddingModels :
          nCalls < MaxSetupCalls /\ ProcessSingleVideo(v, m, PsvAllSucceed)
    \/ \E rows \in GroundTruthFiles : ProvideGroundTruth(rows)
    \/ \E sample_size \in 1 .. MaxGroundTruth : EvalStart(sample_size)
    \/ \E search \in { SearchRaised("IndexNotFoundError"),
                       SearchRaised("search failed"), SearchReturned(<<>>),
                       SearchReturned(<< <<"bees", "dance">> >>) },
          chat \in AnswerOutcomes, judge \in JudgeOutcomes :
          EvalItem(search, chat, judge)
    \/ EvalFinish

SpecEval == Init /\ [][NextEval]_vars

\* evaluation runs that the termination of the process may interrupt
NextEvalInterrupted ==
    \/ NextEval
    \/ Terminate

SpecEvalInterrupted == Init /\ [][NextEvalInterrupted]_vars

\* ground-truth datasets are generated
NextGroundTruth ==
    \E video_id \in GtVideoIds, existing_transcript \in ExistingTranscripts,
       transcript_data \in FetchedTranscripts, chat \in QuestionOutcomes :
        GenerateGroundTruth(video_id, existing_transcript, transcript_data, chat)

SpecGroundTruth == Init /\ [][NextGroundTruth]_vars

\* the whole application
Next ==
    NextIndexing \/ NextGenerator \/ NextQuery \/ NextEvalInterrupted
        \/ NextGroundTruth

Spec == InitConfigured /\ [][Next]_vars

(***************************************************************************)
(* Properties of the indexing path (SpecIndexing)                          *)
(***************************************************************************)
\* C1: when process_single_video is called for the pair of the call before it
\* and that call succeeded, it returns the same index name and rebuilds
\* nothing: no transcript fetch, no transcript processing, no build_index
\* call, no new registry row.
C1_IdempotentIndexing ==
    lastCall.prev # None =>
        /\ lastCall.result = lastCall.prev
        /\ ~lastCall.fetched
        /\ ~lastCall.processed
        /\ ~lastCall.built
        /\ ~lastCall.registered

\* a second call for a pair whose first call succeeded ran the function's body
\* (the cache had been dropped) and took the index from the registry
C1_Witness ==
    /\ lastCall.prev # None
    /\ lastCall.ran
    /\ lastCall.result = Some(IndexName(lastCall.video, lastCall.model))

\* C2: the index registry holds at most one record per (video, embedding
\* model) pair, after any sequence of successful and failing calls.
C2_OneIndexPerPair ==
    \A v \in VideoIds, m \in EmbeddingModels : Cardinality(RowsOf(v, m)) <= 1

\* two pairs are registered, and the last call ran the body for a registered
\* pair without adding a row
C2_Witness ==
    /\ Len(registry) >= 2
    /\ lastCall.ran
    /\ ~lastCall.registered
    /\ RowsOf(lastCall.video, lastCall.model) # {}

(***************************************************************************)
(* Properties of the Generator (SpecGenerator)                             *)
(***************************************************************************)
AllFailed(outcomes) == \A i \in DOMAIN outcomes : ~outcomes[i].ok

\* generate was called directly and has returned
GenerateDone == op.name = "generate" /\ pc = "idle"

\* C3: when the model call fails k times and then succeeds, with
\* k < max_retries, generate returns the content of the successful call after
\* exactly k+1 calls: it does not give up after fewer than max_retries
\* failures, it makes no call after the success, and the value returned is the
\* successful call's content.
C3_RetrySuccess ==
    op.name = "generate" =>
        LET n == Len(genOutcomes)
        IN  /\ n <= max_retries
            /\ \A i \in 1 .. n - 1 : ~genOutcomes[i].ok
            /\ (pc = "generate") => AllFailed(genOutcomes) /\ n < max_retries
            /\ (pc = "idle" /\ AllFailed(genOutcomes)) => n = max_retries
            /\ (pc = "idle" /\ n > 0 /\ genOutcomes[n].ok) =>
                   opResult.value = Some(genOutcomes[n].text)

\* two failures, then a success on the third and last attempt
C3_Witness ==
    /\ GenerateDone
    /\ max_retries = 3
    /\ Len(genOutcomes) = 3
    /\ genOutcomes[3].ok
    /\ opResult.value = Some(<<"rewritten", "query">>)

\* C4: when the model call always fails, generate makes exactly max_retries
\* attempts and then fails (returns None); one delay is slept between each two
\* consecutive attempts and the i-th delay is 2^(i-1).
C4_RetryExhaustion ==
    op.name = "generate" =>
        /\ \A i \in DOMAIN genDelays : genDelays[i] = 2 ^ (i - 1)
        /\ (pc = "generate") => Len(genDelays) = Len(genOutcomes)
        /\ (pc = "idle" /\ genOutcomes # <<>>) =>
               Len(genDelays) = Len(genOutcomes) - 1
        /\ (pc = "idle" /\ AllFailed(genOutcomes)) =>
               /\ Len(genOutcomes) = max_retries
               /\ opResult.value = None

\* three failed attempts out of three, with the delays 1 and 2 between them
C4_Witness ==
    /\ GenerateDone
    /\ max_retries = 3
    /\ Len(genOutcomes) = 3
    /\ AllFailed(genOutcomes)
    /\ genDelays = <<1, 2>>
    /\ opResult.value = None

\* every attempt failed and generate has returned
Exhausted == GenerateDone /\ AllFailed(genOutcomes)

\* the GenerationError the specification describes, carrying the error e
GenerationError(e) == Some(<<"GenerationError", e>>)

\* C5 as stated: when all retries are exhausted the caller is given a
\* GenerationError that carries the last underlying error.
C5_GenerationErrorCarriesLast ==
    (Exhausted /\ genOutcomes # <<>>) =>
        opResult.value = GenerationError(genOutcomes[Len(genOutcomes)].error)

\* C5 as amended: when all retries are exhausted generate returns None, which
\* is no text result and carries no error; the last underlying error is
\* written to the log, followed by the entry that the retries are exhausted.
C5_ExhaustedReturnsNone ==
    Exhausted =>
        /\ opResult.value = None
        /\ \A t \in ChatTexts : opResult.value # Some(t)
        /\ genOutcomes # <<>> =>
               /\ Len(opLog) = Len(genOutcomes) + 1
               /\ opLog[Len(opLog) - 1].error = genOutcomes[Len(genOutcomes)].error
               /\ opLog[Len(opLog) - 1].attempt = max_retries
               /\ opLog[Len(opLog)].msg = "All retries exhausted"

\* two attempts out of two failed, with different errors
C5_Witness ==
    /\ Exhausted
    /\ max_retries = 2
    /\ genOutcomes = <<ChatFailed("timeout"), ChatFailed("connection refused")>>
    /\ opResult.value = None

(***************************************************************************)
(* Properties of the rewriters (SpecGenerator)                             *)
(***************************************************************************)
\* the prompt the rewriter of the operation sends
AttemptedPrompt(o) ==
    CASE o.name = "rewrite_cot" -> RagCotPrompt(o.query)
      [] o.name = "rewrite_react" -> RagReactPrompt(o.query)
      [] o.name = "qr_cot" -> QrCotPrompt(o.query)
      [] o.name = "qr_react" -> QrReactPrompt(o.query)
      [] OTHER -> <<>>

\* C7: for both strategies, when the model call fails rewrite returns the
\* original query with the attempted prompt; when the model call succeeds the
\* first component is the model's text.
C7_RewriteFallback ==
    (pc = "idle" /\ op.name \in {"rewrite_cot", "rewrite_react", "qr_cot", "qr_react"}) =>
        /\ opResult.prompt = AttemptedPrompt(op)
        /\ AllFailed(genOutcomes) => opResult.value = Some(op.query)
        /\ (genOutcomes # <<>> /\ genOutcomes[Len(genOutcomes)].ok) =>
               opResult.value = Some(genOutcomes[Len(genOutcomes)].text)

(***************************************************************************)
(* Properties of the query path (SpecQuery)                                *)
(***************************************************************************)
\* C6: a model call made to answer a query goes through the retry policy: a
\* failure surfaces only after max_retries attempts.
C6_QueryRetries ==
    (op.name = "query" /\ genOutcomes # <<>> /\ AllFailed(genOutcomes)) =>
        Len(genOutcomes) = max_retries

(***************************************************************************)
(* Properties of the evaluation run (SpecEval)                             *)
(***************************************************************************)
\* the run in progress or the most recent one has returned its records
EvalReturned == pc = "idle" /\ evalReturn # None

\* C8: a sampled item whose video has no index yields no record, the loop
\* goes on to the next item, and the run returns; with one such item and all
\* other items succeeding the run returns sample size minus one records.
C8_SkipSemantics ==
    /\ lastItem.noIndex => ~lastItem.recorded
    /\ (lastItem.noIndex /\ evalReturn = None) =>
           pc = "evaluate" /\ evalPos = lastItem.pos
    /\ Len(evaluations) + nNoIndex <= evalPos
    /\ EvalReturned =>
           /\ evalPos = Len(sample)
           /\ (nNoIndex = 1 /\ nQueryFailed = 0 /\ nJudgeFailed = 0) =>
                  Len(evalReturn[1]) = Len(sample) - 1

\* a run over two items returned one record: the first item's video had no
\* index, the second item succeeded
C8_Witness ==
    /\ EvalReturned
    /\ Len(sample) = 2
    /\ nNoIndex = 1
    /\ nQueryFailed = 0
    /\ nJudgeFailed = 0
    /\ lastItem.pos = 2
    /\ lastItem.recorded
    /\ Len(evalReturn[1]) = 1

\* C9: a sampled item whose query failed (search error or model-call error)
\* yields no record.
C9_QueryFailureSkipped ==
    lastItem.queryFailed => ~lastItem.recorded

\* C10: when the judge call fails or returns text that is not valid JSON, no
\* record is appended for the item, the loop goes on to the next item, and the
\* run returns (and stores) exactly the records of the items that were not
\* skipped and whose judge returned an object.
C10_JudgeFailureIsolated ==
    /\ lastItem.judge \in {"failed", "invalid"} => ~lastItem.recorded
    /\ (lastItem.judge \in {"failed", "invalid"} /\ evalReturn = None) =>
           pc = "evaluate" /\ evalPos = lastItem.pos
    /\ Len(evaluations) = evalPos - nNoIndex - nJudgeFailed
    /\ EvalReturned =>
           /\ evalPos = Len(sample)
           /\ evalReturn = Some(evaluations)
           /\ ragEvaluations = evaluations

\* a run over two items returned one record: the judge failed on the first
\* item, the second item was judged and recorded
C10_Witness ==
    /\ EvalReturned
    /\ Len(sample) = 2
    /\ nNoIndex = 0
    /\ nJudgeFailed = 1
    /\ lastItem.pos = 2
    /\ lastItem.judge = "object"
    /\ lastItem.recorded
    /\ Len(evalReturn[1]) = 1

\* the labels the judge is asked to choose from
RelevanceLabels == {"NON_RELEVANT", "PARTLY_RELEVANT", "RELEVANT"}

\* C11: every record an evaluation run has produced, returned or stored has a
\* relevance label that is one of NON_RELEVANT, PARTLY_RELEVANT, RELEVANT,
\* whatever JSON object the judge returned.
C11_RelevanceLabelValid ==
    /\ \A i \in DOMAIN evaluations : evaluations[i].relevance \in RelevanceLabels
    /\ \A i \in DOMAIN ragEvaluations :
           ragEvaluations[i].relevance \in RelevanceLabels
    /\ evalReturn # None =>
           \A i \in DOMAIN evalReturn[1] :
               evalReturn[1][i].relevance \in RelevanceLabels

(***************************************************************************)
(* Properties of a query on a missing index (SpecQuery)                    *)
(***************************************************************************)
\* the most recent operation was a query without an index name, or on an
\* index the search backend does not have
QueryOnMissingIndex ==
    /\ op.name = "query"
    /\ opLog # <<>>
    /\ opLog[1].error \in {"No index name provided", "IndexNotFoundError"}

\* what the caller gets from a search that found no passage
ZeroPassagesResult == [value |-> Some(NoDocsAnswer), prompt |-> <<>>]

\* C12: a query on an index that does not exist ends in an error, not in a
\* returned result, and what the caller gets differs from what a search that
\* found no passage gives.
C12_MissingIndexIsError ==
    QueryOnMissingIndex =>
        /\ opResult.value = None
        /\ opResult # ZeroPassagesResult

(***************************************************************************)
(* No partly indexed video (SpecIndexing)                                  *)
(***************************************************************************)
\* the index names the registry holds
RegisteredIndexNames == { registry[i].index : i \in DOMAIN registry }

\* the most recent call ran the body and reported failure: it returned no
\* index name, or it raised
CallFailed == lastCall.ran /\ lastCall.result = None

\* C13: a call of process_single_video that reports failure has left no index
\* built in the search backend and no registry row for its pair; in every
\* state an index that was built is registered.
C13_NoPartialIndexing ==
    /\ CallFailed => ~lastCall.indexed /\ ~lastCall.registered
    /\ esIndices \subseteq RegisteredIndexNames

(***************************************************************************)
(* Interrupted evaluation runs (SpecEvalInterrupted)                       *)
(***************************************************************************)
\* the process was terminated during the loop of an evaluation run
EvalInterrupted == pc = "killed"

\* C14 (as stated): when an evaluation run is interrupted by the termination
\* of the process, the records produced for the items evaluated before the
\* interruption are in the persisted evaluation storage.
C14_InterruptedRecordsRetained ==
    EvalInterrupted =>
        \A i \in DOMAIN evaluations :
            \E j \in DOMAIN ragEvaluations : ragEvaluations[j] = evaluations[i]

\* C14 (amended): the records of a run are stored all at once after its last
\* item: while the run is in its loop, and when it is interrupted there, the
\* storage holds none of its records, and once it has returned the storage
\* holds all of them.
C14_RecordsStoredAtEnd ==
    /\ pc \in {"evaluate", "killed"} => ragEvaluations = <<>>
    /\ EvalReturned => ragEvaluations = evaluations /\ evalPos = Len(sample)

\* a run was interrupted after its first item had been evaluated and recorded,
\* with one more item to go
C14_Witness ==
    /\ EvalInterrupted
    /\ Len(sample) = 2
    /\ evalPos = 1
    /\ Len(evaluations) = 1
    /\ ragEvaluations = <<>>

(***************************************************************************)
(* Properties of ground-truth generation (SpecGroundTruth)                 *)
(***************************************************************************)
\* the model's response to the most recent call was no usable one: the call
\* failed, or its contents are not valid JSON, or they have no "questions"
\* field
ResponseUnusable ==
    /\ gtCall.asked
    /\ \/ ~gtCall.response.ok
       \/ json_loads(gtCall.response.text).raised
       \/ "questions" \notin json_loads(gtCall.response.text).keys

\* C15: when the model call fails, or the response is not valid JSON or has
\* no questions field, generate_ground_truth reports the failure (it shows
\* an error and returns None, or it raises), writes no dataset and shows no
\* success.
C15_GenerationFailureReported ==
    ResponseUnusable =>
        /\ gtCall.result = None
        /\ groundTruthFile = gtCall.before
        /\ gtCall.raised \/ gtCall.message = "Failed to generate questions."
        /\ gtCall.message # "Ground truth data generated and saved"

\* a dataset was there and the model answered with text that is not JSON:
\* the call returned None and the dataset is as it was
C15_Witness ==
    /\ gtCall.asked
    /\ gtCall.response.ok
    /\ json_loads(gtCall.response.text).raised
    /\ gtCall.before # None
    /\ gtCall.result = None
    /\ groundTruthFile = gtCall.before

\* C16: the dataset file holds exactly the (video_id, question) items of the
\* most recent successful generate_ground_truth call: a successful call
\* replaces the whole file and a failed call leaves it as it was.
C16_DatasetIsLastSuccess ==
    /\ groundTruthFile = gtLast
    /\ (gtCall.called /\ gtCall.result # None) => groundTruthFile = gtCall.result
    /\ (gtCall.called /\ gtCall.result = None) => groundTruthFile = gtCall.before

\* a dataset of one video was there and a successful call for another video
\* replaced it: no row of the earlier video is left
C16_Witness ==
    /\ gtCall.called
    /\ gtCall.before # None
    /\ gtCall.result # None
    /\ gtCall.before[1][1].video_id # gtCall.result[1][1].video_id
    /\ groundTruthFile = gtCall.result
    /\ \A i \in DOMAIN groundTruthFile[1] :
           groundTruthFile[1][i].video_id = gtCall.result[1][1].video_id

====
